---------------------------- MODULE Spec2Model ----------------------------
(***************************************************************************)
(* Model of the audio pipeline of src/App.tsx: the base64 byte decoder,    *)
(* the 16-bit PCM decoder, the lazily created audio session, the single    *)
(* "current source" slot and the playTTS / startGame asynchronous          *)
(* handlers, run by a single-threaded event loop.                          *)
(***************************************************************************)
EXTENDS Integers, Sequences, FiniteSets, TLC

VARIABLES
    apiKey,            \* process.env.API_KEY, fixed for the page lifetime
    gameStarted,       \* state.gameStarted
    isLoadingAudio,    \* React state isLoadingAudio
    apiError,          \* React state apiError: "none", "config", "voice"
    audioContextRef,   \* 0 = null, else the id of the AudioContext instance
    ctxState,          \* AudioContext.state of the instance (or "none")
    ctxBuilt,          \* number of AudioContext objects constructed so far
    currentSourceRef,  \* 0 = null, else the id of the tracked source node
    handles,           \* source node id -> record of its playback state
    calls,             \* invocation id -> record of one playTTS/startGame call
    lastStop,          \* what the latest stopCurrentAudio run met
    lastResponse,      \* the latest synthesis response: its call and payload
    state,             \* React state `state`: the quiz fields of GameState
    view,              \* React state view: "play", "create", "story"
    timer,             \* the auto-narration timeout and the question it reads
    fnIn,              \* argument of the decoder being exercised
    fnOut              \* its result, or NotRun

vars == <<apiKey, gameStarted, isLoadingAudio, apiError, audioContextRef,
          ctxState, ctxBuilt, currentSourceRef, handles, calls, lastStop,
          lastResponse, state, view, timer, fnIn, fnOut>>

quizVars == <<state, view, timer>>

-----------------------------------------------------------------------------
(* Bounds of the model.                                                    *)
MaxCalls == 3
MaxB64Len == 5
MaxBytes == 3
MaxPcmBytes == 5
MaxChannels == 2
MaxKeyLen == 11
MaxGameCalls == 1
MaxTextLen == 4

(* Program constants.                                                      *)
SampleRate == 24000
PcmScale == 32768
MinKeyLen == 10

NotRun == [run |-> FALSE]

RECURSIVE SeqsUpTo(_, _)
SeqsUpTo(S, n) ==
    IF n = 0 THEN {<<>>}
    ELSE SeqsUpTo(S, n - 1) \cup [1..n -> S]

-----------------------------------------------------------------------------
(* Base64 text is a sequence of one-character strings.                     *)
B64Alphabet ==
    << "A","B","C","D","E","F","G","H","I","J","K","L","M","N","O","P",
       "Q","R","S","T","U","V","W","X","Y","Z","a","b","c","d","e","f",
       "g","h","i","j","k","l","m","n","o","p","q","r","s","t","u","v",
       "w","x","y","z","0","1","2","3","4","5","6","7","8","9","+","/" >>

B64Chars == {B64Alphabet[i] : i \in 1..64}

AsciiWhitespace == {" ", "\t", "\n", "\f", "\r"}

DigitVal(c) == (CHOOSE i \in 1..64 : B64Alphabet[i] = c) - 1

IsWs(c) == c \in AsciiWhitespace

(* The platform's atob (forgiving-base64 decode): strip ASCII whitespace;   *)
(* if the length is a multiple of 4 drop one or two trailing "="; fail on  *)
(* length 1 mod 4 or on any character outside the alphabet; then decode 6  *)
(* bits per character, discarding the 4 or 2 bits left over.               *)
StripWs(s) == SelectSeq(s, LAMBDA c : ~IsWs(c))

StripPad(d) ==
    IF Len(d) % 4 = 0 /\ Len(d) > 0 /\ d[Len(d)] = "="
    THEN IF d[Len(d) - 1] = "="
         THEN SubSeq(d, 1, Len(d) - 2)
         ELSE SubSeq(d, 1, Len(d) - 1)
    ELSE d

RECURSIVE DecodeGroups(_)
DecodeGroups(d) ==
    IF Len(d) = 0 THEN <<>>
    ELSE IF Len(d) >= 4 THEN
        LET n == DigitVal(d[1]) * 262144 + DigitVal(d[2]) * 4096
                 + DigitVal(d[3]) * 64 + DigitVal(d[4])
        IN  << n \div 65536, (n \div 256) % 256, n % 256 >>
            \o DecodeGroups(SubSeq(d, 5, Len(d)))
    ELSE IF Len(d) = 3 THEN
        LET n == (DigitVal(d[1]) * 4096 + DigitVal(d[2]) * 64
                  + DigitVal(d[3])) \div 4
        IN  << n \div 256, n % 256 >>
    ELSE
        << (DigitVal(d[1]) * 64 + DigitVal(d[2])) \div 16 >>

atob(s) ==
    LET d == StripPad(StripWs(s))
    IN  IF Len(d) % 4 = 1 \/ \E i \in 1..Len(d) : d[i] \notin B64Chars
        THEN [threw |-> TRUE, value |-> <<>>]
        ELSE [threw |-> FALSE, value |-> DecodeGroups(d)]

(* Uint8Array element store: the value modulo 2^8.                         *)
ToUint8(n) == n % 256

(* decodeBase64 without its try/catch: the platform error reaches the      *)
(* caller.                                                                 *)
decodeBase64_NoCatch(base64) ==
    LET r == atob(base64)
    IN  IF r.threw
        THEN [raised |-> TRUE, bytes |-> <<>>]
        ELSE [raised |-> FALSE,
              bytes |-> [i \in 1..Len(r.value) |-> ToUint8(r.value[i])]]

(* decodeBase64 copying one character too few.                             *)
decodeBase64_Short(base64) ==
    LET r == atob(base64)
    IN  IF r.threw
        THEN [raised |-> FALSE, bytes |-> <<>>]
        ELSE [raised |-> FALSE,
              bytes |-> [i \in 1..(IF Len(r.value) = 0 THEN 0 ELSE Len(r.value) - 1)
                            |-> ToUint8(r.value[i])]]

decodeBase64(base64) ==
    LET r == atob(base64)
    IN  IF r.threw
        THEN [raised |-> FALSE, bytes |-> <<>>]
        ELSE [raised |-> FALSE,
              bytes |-> [i \in 1..Len(r.value) |-> ToUint8(r.value[i])]]


(* Standard base64 encoding (RFC 4648, with padding) of a byte sequence.   *)
RECURSIVE btoa(_)
btoa(b) ==
    IF Len(b) = 0 THEN <<>>
    ELSE IF Len(b) >= 3 THEN
        LET n == b[1] * 65536 + b[2] * 256 + b[3]
        IN  << B64Alphabet[(n \div 262144) + 1],
               B64Alphabet[((n \div 4096) % 64) + 1],
               B64Alphabet[((n \div 64) % 64) + 1],
               B64Alphabet[(n % 64) + 1] >>
            \o btoa(SubSeq(b, 4, Len(b)))
    ELSE IF Len(b) = 2 THEN
        LET n == (b[1] * 256 + b[2]) * 4
        IN  << B64Alphabet[(n \div 4096) + 1],
               B64Alphabet[((n \div 64) % 64) + 1],
               B64Alphabet[(n % 64) + 1], "=" >>
    ELSE
        LET n == b[1] * 16
        IN  << B64Alphabet[(n \div 64) + 1], B64Alphabet[(n % 64) + 1],
               "=", "=" >>

-----------------------------------------------------------------------------
(* Int16Array over the bytes: ToIndex truncates length/2, elements are     *)
(* little-endian two's complement.                                         *)
ToInt16(lo, hi) ==
    LET u == lo + 256 * hi
    IN  IF u >= 32768 THEN u - 65536 ELSE u

Int16View(data) ==
    [k \in 1..(Len(data) \div 2) |-> ToInt16(data[2 * k - 1], data[2 * k])]

(* BaseAudioContext.createBuffer(numberOfChannels, length, sampleRate):    *)
(* length num/den is converted to an unsigned long by truncation, and a    *)
(* zero channel count or a zero length is a NotSupportedError.             *)
createBuffer(numChannels, num, den) ==
    LET length == IF den = 0 THEN 0 ELSE num \div den
    IN  IF numChannels = 0 \/ length = 0
        THEN [raised |-> TRUE, length |-> 0]
        ELSE [raised |-> FALSE, length |-> length]

(* One decoded sample: the quotient raw / 32768.0, kept exact.             *)
Sample(raw) == [num |-> raw, den |-> PcmScale]

Silence == [num |-> 0, den |-> PcmScale]

(* decodeAudioData reading every channel from the first channel's samples. *)
decodeAudioData_NoChannelOffset(data, numChannels) ==
    LET dataInt16 == Int16View(data)
        buffer == createBuffer(numChannels, Len(dataInt16), numChannels)
    IN  IF buffer.raised
        THEN [raised |-> TRUE, numberOfChannels |-> 0, length |-> 0,
              sampleRate |-> SampleRate, channelData |-> <<>>]
        ELSE [raised |-> FALSE,
              numberOfChannels |-> numChannels,
              length |-> buffer.length,
              sampleRate |-> SampleRate,
              channelData |->
                [c \in 1..numChannels |->
                  [f \in 1..buffer.length |->
                    Sample(dataInt16[(f - 1) * numChannels + 1])]]]

(* decodeAudioData(data, ctx, sampleRate, numChannels).  frameCount is the *)
(* real quotient dataInt16.length / numChannels; the loop visits every     *)
(* 0-based i with i < frameCount, and a store past the end of the channel  *)
(* data is ignored.                                                        *)
decodeAudioData(data, numChannels) ==
    LET dataInt16 == Int16View(data)
        buffer == createBuffer(numChannels, Len(dataInt16), numChannels)
        Visited(i) == i * numChannels < Len(dataInt16)
    IN  IF buffer.raised
        THEN [raised |-> TRUE, numberOfChannels |-> 0, length |-> 0,
              sampleRate |-> SampleRate, channelData |-> <<>>]
        ELSE [raised |-> FALSE,
              numberOfChannels |-> numChannels,
              length |-> buffer.length,
              sampleRate |-> SampleRate,
              channelData |->
                [c \in 1..numChannels |->
                  [f \in 1..buffer.length |->
                    IF Visited(f - 1)
                    THEN Sample(dataInt16[(f - 1) * numChannels + c])
                    ELSE Silence]]]

-----------------------------------------------------------------------------
(* The credential: absent, or a string given by its characters.            *)
NoKey == [present |-> FALSE, chars |-> <<>>]
KeyOf(cs) == [present |-> TRUE, chars |-> cs]
UndefinedLiteral == <<"u","n","d","e","f","i","n","e","d">>

KeySamples ==
    { NoKey,
      KeyOf(UndefinedLiteral),
      KeyOf(<<>>),
      KeyOf(<<"A","I","z","a","5">>),
      KeyOf(<<"A","I","z","a","S","y","0","1","2","3">>) }

(* checkApiKey rejecting a key of exactly the minimum length.              *)
checkApiKey_OffByOne(key) ==
    IF ~key.present \/ key.chars = UndefinedLiteral \/ key.chars = <<>>
       \/ Len(key.chars) <= MinKeyLen
    THEN FALSE
    ELSE TRUE

checkApiKey(key) ==
    IF ~key.present \/ key.chars = UndefinedLiteral \/ key.chars = <<>>
       \/ Len(key.chars) < MinKeyLen
    THEN FALSE
    ELSE TRUE

(* playTTS's own test: !apiKey || apiKey === "undefined".                  *)
ttsKeyMissing(key) ==
    ~key.present \/ key.chars = <<>> \/ key.chars = UndefinedLiteral

-----------------------------------------------------------------------------
(* Source nodes, named after the call that created them.                   *)
CallIds == 1..MaxCalls

NoHandle == [st |-> "none", how |-> "-"]

IdleCall ==
    [kind |-> "none", pc |-> "idle", outcome |-> "-",
     failedAt |-> "-", ctx |-> 0, awaited |-> FALSE, requests |-> 0,
     overlapped |-> FALSE]

NoStop ==
    [ran |-> FALSE, by |-> 0, met |-> "-", threw |-> FALSE, raised |-> FALSE]

InFlight(c) == c.pc \in {"resuming", "acquired", "requesting"}
Settled(c) == c.pc \in {"done", "escaped"}
Issued == {p \in CallIds : calls[p].pc # "idle"}
NextId == Cardinality(Issued) + 1
Playing == {h \in CallIds : handles[h].st = "playing"}

(* A continuation queued behind an await that is already resolved runs     *)
(* before the event loop takes any other task.                             *)
MicrotaskPending == \E p \in CallIds : calls[p].pc = "acquired"

(* AudioScheduledSourceNode.stop(): InvalidStateError on a node that was   *)
(* never started; on a node that already finished, engines behind the      *)
(* webkitAudioContext fallback raise as well (legacy = TRUE).              *)
sourceStopThrows(st, legacy) ==
    st = "created" \/ (legacy /\ st \in {"ending", "ended"})

sourceStopped(h) ==
    IF h.st = "playing" THEN [st |-> "ending", how |-> "stop"] ELSE h

(* stopCurrentAudio with the slot cleared inside the try block.            *)
stopCurrentAudio_ClearInTry(slot, hs, legacy) ==
    IF slot # 0
    THEN LET threw == sourceStopThrows(hs[slot].st, legacy)
         IN  [slot |-> IF threw THEN slot ELSE 0,
              hs |-> IF threw THEN hs
                     ELSE [hs EXCEPT ![slot] = sourceStopped(hs[slot])],
              ran |-> TRUE, met |-> hs[slot].st, threw |-> threw,
              raised |-> FALSE]
    ELSE [slot |-> slot, hs |-> hs, ran |-> TRUE, met |-> "null",
          threw |-> FALSE, raised |-> FALSE]

(* stopCurrentAudio without the try/catch around stop().                   *)
stopCurrentAudio_NoCatch(slot, hs, legacy) ==
    IF slot # 0
    THEN LET threw == sourceStopThrows(hs[slot].st, legacy)
         IN  [slot |-> IF threw THEN slot ELSE 0,
              hs |-> IF threw THEN hs
                     ELSE [hs EXCEPT ![slot] = sourceStopped(hs[slot])],
              ran |-> TRUE, met |-> hs[slot].st, threw |-> threw,
              raised |-> threw]
    ELSE [slot |-> slot, hs |-> hs, ran |-> TRUE, met |-> "null",
          threw |-> FALSE, raised |-> FALSE]

(* playTTS not calling stopCurrentAudio before its first await.            *)
stopCurrentAudio_Skip(slot, hs, legacy) ==
    [slot |-> slot, hs |-> hs, ran |-> FALSE, met |-> "-", threw |-> FALSE,
     raised |-> FALSE]

stopCurrentAudio(slot, hs, legacy) ==
    IF slot # 0
    THEN LET threw == sourceStopThrows(hs[slot].st, legacy)
         IN  [slot |-> 0,
              hs |-> IF threw THEN hs
                     ELSE [hs EXCEPT ![slot] = sourceStopped(hs[slot])],
              ran |-> TRUE, met |-> hs[slot].st, threw |-> threw,
              raised |-> FALSE]
    ELSE [slot |-> slot, hs |-> hs, ran |-> TRUE, met |-> "null",
          threw |-> FALSE, raised |-> FALSE]

(* initAudio up to its first suspension point.  ctor is what the           *)
(* AudioContext constructor does if it is run: "throws", or the state the  *)
(* new context starts in.  awaits = TRUE: resume() was called and initAudio *)
(* is suspended on it.                                                     *)
CtorOutcomes == {"running", "suspended", "throws"}

initAudio_AlwaysNew(ref, st, built, ctor) ==
    IF ctor = "throws"
    THEN [ref |-> ref, st |-> st, built |-> built, threw |-> TRUE,
          awaits |-> FALSE]
    ELSE [ref |-> built + 1, st |-> ctor, built |-> built + 1,
          threw |-> FALSE, awaits |-> (ctor = "suspended")]

initAudio_NoResume(ref, st, built, ctor) ==
    IF ref = 0 /\ ctor = "throws"
    THEN [ref |-> ref, st |-> st, built |-> built, threw |-> TRUE,
          awaits |-> FALSE]
    ELSE LET made == (ref = 0)
             ref2 == IF made THEN built + 1 ELSE ref
             st2 == IF made THEN ctor ELSE st
         IN  [ref |-> ref2, st |-> st2,
              built |-> IF made THEN built + 1 ELSE built,
              threw |-> FALSE, awaits |-> FALSE]

initAudio(ref, st, built, ctor) ==
    IF ref = 0 /\ ctor = "throws"
    THEN [ref |-> ref, st |-> st, built |-> built, threw |-> TRUE,
          awaits |-> FALSE]
    ELSE LET made == (ref = 0)
             ref2 == IF made THEN built + 1 ELSE ref
             st2 == IF made THEN ctor ELSE st
         IN  [ref |-> ref2, st |-> st2,
              built |-> IF made THEN built + 1 ELSE built,
              threw |-> FALSE, awaits |-> (st2 = "suspended")]

(* The synthesis response's inlineData.data: absent, or base64 text.       *)
NoPayload == [present |-> FALSE, data |-> <<>>]
PayloadOf(t) == [present |-> TRUE, data |-> t]

PayloadSamples ==
    { NoPayload,
      PayloadOf(<<>>),
      PayloadOf(<<"A","A","E","=">>),
      PayloadOf(<<"A","A","A","A">>),
      PayloadOf(<<"A","A","=","=">>),
      PayloadOf(<<"!">>) }

NoResponse == [call |-> 0, payload |-> NoPayload]

Truthy(payload) == payload.present /\ payload.data # <<>>

(* handleResponse with the decoding outside the try block: a decoding      *)
(* error leaves playTTS as a rejection.                                    *)
handleResponse_NoCatch(p, payload, slot, hs, loading, err) ==
    IF ~Truthy(payload)
    THEN [slot |-> slot, hs |-> hs, loading |-> loading, err |-> err,
          pc |-> "done", outcome |-> "noaudio", failedAt |-> "-"]
    ELSE LET bytes == decodeBase64(payload.data)
             audioBuffer == decodeAudioData(bytes.bytes, 1)
         IN  IF bytes.raised \/ audioBuffer.raised
             THEN [slot |-> slot, hs |-> hs, loading |-> loading,
                   err |-> err, pc |-> "escaped", outcome |-> "escaped",
                   failedAt |-> "decode"]
             ELSE [slot |-> p,
                   hs |-> [hs EXCEPT ![p] = [st |-> "playing", how |-> "-"]],
                   loading |-> loading, err |-> "none", pc |-> "done",
                   outcome |-> "played", failedAt |-> "-"]

(* Lines 139-154 of playTTS for call p, run in one turn of the event loop. *)
handleResponse(p, payload, slot, hs, loading, err) ==
    IF ~Truthy(payload)
    THEN [slot |-> slot, hs |-> hs, loading |-> loading, err |-> err,
          pc |-> "done", outcome |-> "noaudio", failedAt |-> "-"]
    ELSE LET bytes == decodeBase64(payload.data)
             audioBuffer == decodeAudioData(bytes.bytes, 1)
         IN  IF bytes.raised \/ audioBuffer.raised
             THEN [slot |-> slot, hs |-> hs, loading |-> FALSE,
                   err |-> "voice", pc |-> "done", outcome |-> "caught",
                   failedAt |-> "decode"]
             ELSE [slot |-> p,
                   hs |-> [hs EXCEPT ![p] = [st |-> "playing", how |-> "-"]],
                   loading |-> loading, err |-> "none", pc |-> "done",
                   outcome |-> "played", failedAt |-> "-"]

-----------------------------------------------------------------------------
(* The quiz. MISSION_THEMES has NumMissions entries, all handled alike:    *)
(* the model switches between the first and the last. The question list   *)
(* is imported from ./constants: every mission is given                    *)
(* QuestionsPerMission questions. userAnswer and feedbackMessage are       *)
(* display-only and left out of the record.                                *)
NumMissions == 5
QuestionsPerMission == 2
MissionSamples == {1, NumMissions}
Views == {"play", "create", "story"}

InitialState ==
    [activeMission |-> 1, currentQuestionIndex |-> 0, attempts |-> 0,
     score |-> 0, feedbackType |-> "none", isGameOver |-> FALSE,
     showExplanation |-> FALSE]

NoTimer == [armed |-> FALSE, mission |-> 0, index |-> 0]

(* Dependency list of the auto-narration effect, line 206.                 *)
EffectDeps(st, started, v) ==
    <<st.currentQuestionIndex, st.activeMission, started, v>>

(* The auto-narration effect after a render, lines 201-206: when a         *)
(* dependency changed, the previous run's cleanup clears its timeout and   *)
(* the effect arms a new one if its condition holds.                       *)
narrationEffect(tm, oldSt, oldStarted, oldView, st, started, v) ==
    IF EffectDeps(st, started, v) = EffectDeps(oldSt, oldStarted, oldView)
    THEN tm
    ELSE IF /\ started
            /\ ~st.showExplanation
            /\ ~st.isGameOver
            /\ st.currentQuestionIndex < QuestionsPerMission
            /\ v = "play"
         THEN [armed |-> TRUE, mission |-> st.activeMission,
               index |-> st.currentQuestionIndex]
         ELSE NoTimer

-----------------------------------------------------------------------------
(* State after mount: the mount effect has run checkApiKey once.           *)
MainInit(keys) ==
    /\ apiKey \in keys
    /\ gameStarted = FALSE
    /\ isLoadingAudio = FALSE
    /\ apiError = (IF checkApiKey(apiKey) THEN "none" ELSE "config")
    /\ audioContextRef = 0
    /\ ctxState = "none"
    /\ ctxBuilt = 0
    /\ currentSourceRef = 0
    /\ handles = [h \in CallIds |-> NoHandle]
    /\ calls = [p \in CallIds |-> IdleCall]
    /\ lastStop = NoStop
    /\ lastResponse = NoResponse
    /\ state = InitialState
    /\ view = "play"
    /\ timer = NoTimer

mainVars == <<apiKey, gameStarted, isLoadingAudio, apiError, audioContextRef,
              ctxState, ctxBuilt, currentSourceRef, handles, calls, lastStop,
              lastResponse, quizVars>>

Init ==
    /\ MainInit(KeySamples)
    /\ fnIn = <<>>
    /\ fnOut = NotRun

(* A later playTTS was issued while q's synthesis request was pending.     *)
MarkOverlapped(cs) ==
    [q \in CallIds |->
        IF cs[q].kind = "speak" /\ cs[q].pc = "requesting"
        THEN [cs[q] EXCEPT !.overlapped = TRUE]
        ELSE cs[q]]

(* playTTS with setIsLoadingAudio(true) moved before the await of          *)
(* initAudio.                                                              *)
InvokePlayTTS_LoadingFirst(p, ctor, legacy) ==
    /\ ~MicrotaskPending
    /\ p = NextId
    /\ LET s == stopCurrentAudio(currentSourceRef, handles, legacy)
           a == initAudio(audioContextRef, ctxState, ctxBuilt, ctor)
           me == [IdleCall EXCEPT !.kind = "speak"]
           cs == MarkOverlapped(calls)
       IN  /\ lastStop' = [ran |-> s.ran, by |-> IF s.ran THEN p ELSE 0,
                           met |-> s.met, threw |-> s.threw,
                           raised |-> s.raised]
           /\ currentSourceRef' = s.slot
           /\ handles' = s.hs
           /\ IF s.raised
              THEN /\ calls' = [cs EXCEPT ![p] =
                        [me EXCEPT !.pc = "escaped", !.outcome = "escaped",
                                   !.failedAt = "stop"]]
                   /\ UNCHANGED <<audioContextRef, ctxState, ctxBuilt>>
              ELSE /\ audioContextRef' = a.ref
                   /\ ctxState' = a.st
                   /\ ctxBuilt' = a.built
                   /\ calls' = [cs EXCEPT ![p] =
                        IF a.threw
                        THEN [me EXCEPT !.pc = "escaped",
                                        !.outcome = "escaped",
                                        !.failedAt = "acquire"]
                        ELSE IF a.awaits
                        THEN [me EXCEPT !.pc = "resuming"]
                        ELSE [me EXCEPT !.pc = "acquired", !.ctx = a.ref]]
    /\ isLoadingAudio' = TRUE
    /\ UNCHANGED <<apiKey, gameStarted, apiError, fnIn, fnOut, lastResponse>>

(* playTTS, lines 118-120 up to the await: the                             *)
(* synchronous stopCurrentAudio and the synchronous part of initAudio.     *)
InvokePlayTTS(p, ctor, legacy) ==
    /\ ~MicrotaskPending
    /\ p = NextId
    /\ LET s == stopCurrentAudio(currentSourceRef, handles, legacy)
           a == initAudio(audioContextRef, ctxState, ctxBuilt, ctor)
           me == [IdleCall EXCEPT !.kind = "speak"]
           cs == MarkOverlapped(calls)
       IN  /\ lastStop' = [ran |-> s.ran, by |-> IF s.ran THEN p ELSE 0,
                           met |-> s.met, threw |-> s.threw,
                           raised |-> s.raised]
           /\ currentSourceRef' = s.slot
           /\ handles' = s.hs
           /\ IF s.raised
              THEN /\ calls' = [cs EXCEPT ![p] =
                        [me EXCEPT !.pc = "escaped", !.outcome = "escaped",
                                   !.failedAt = "stop"]]
                   /\ UNCHANGED <<audioContextRef, ctxState, ctxBuilt>>
              ELSE /\ audioContextRef' = a.ref
                   /\ ctxState' = a.st
                   /\ ctxBuilt' = a.built
                   /\ calls' = [cs EXCEPT ![p] =
                        IF a.threw
                        THEN [me EXCEPT !.pc = "escaped",
                                        !.outcome = "escaped",
                                        !.failedAt = "acquire"]
                        ELSE IF a.awaits
                        THEN [me EXCEPT !.pc = "resuming"]
                        ELSE [me EXCEPT !.pc = "acquired", !.ctx = a.ref]]
    /\ UNCHANGED <<apiKey, gameStarted, isLoadingAudio, apiError, fnIn, fnOut,
                   lastResponse>>

(* playTTS reachable from the start screen.                                *)
PlayTTS_BeforeStart(p, ctor, legacy) ==
    /\ InvokePlayTTS(p, ctor, legacy)
    /\ UNCHANGED <<state, view, timer>>

(* playTTS called by any of its callers, all rendered only once the game   *)
(* has started (line 209).                                                 *)
PlayTTS(p, ctor, legacy) ==
    /\ gameStarted
    /\ InvokePlayTTS(p, ctor, legacy)
    /\ UNCHANGED <<state, view, timer>>

(* startGame, line 158 up to the await.                                    *)
StartGame(p, ctor) ==
    /\ ~gameStarted
    /\ ~MicrotaskPending
    /\ p = NextId
    /\ LET a == initAudio(audioContextRef, ctxState, ctxBuilt, ctor)
           me == [IdleCall EXCEPT !.kind = "start"]
       IN  /\ audioContextRef' = a.ref
           /\ ctxState' = a.st
           /\ ctxBuilt' = a.built
           /\ calls' = [calls EXCEPT ![p] =
                IF a.threw
                THEN [me EXCEPT !.pc = "escaped", !.outcome = "escaped",
                                !.failedAt = "acquire"]
                ELSE IF a.awaits
                THEN [me EXCEPT !.pc = "resuming"]
                ELSE [me EXCEPT !.pc = "acquired", !.ctx = a.ref]]
    /\ UNCHANGED <<apiKey, gameStarted, isLoadingAudio, apiError,
                   currentSourceRef, handles, lastStop, fnIn, fnOut,
                   lastResponse, quizVars>>

(* The context starts running: every pending resume() promise resolves,    *)
(* and each suspended initAudio returns the context (line 108).            *)
ResumeResolve ==
    /\ ~MicrotaskPending
    /\ \E p \in CallIds : calls[p].pc = "resuming"
    /\ ctxState' = "running"
    /\ calls' = [p \in CallIds |->
                    IF calls[p].pc = "resuming"
                    THEN [calls[p] EXCEPT !.pc = "acquired",
                                          !.awaited = TRUE,
                                          !.ctx = audioContextRef]
                    ELSE calls[p]]
    /\ UNCHANGED <<apiKey, gameStarted, isLoadingAudio, apiError,
                   audioContextRef, ctxBuilt, currentSourceRef, handles,
                   lastStop, fnIn, fnOut,
                   lastResponse, quizVars>>

(* The pending resume() promises reject: the rejection passes through      *)
(* initAudio and through the await of line 120 / 158, outside any try.     *)
ResumeReject ==
    /\ ~MicrotaskPending
    /\ \E p \in CallIds : calls[p].pc = "resuming"
    /\ calls' = [p \in CallIds |->
                    IF calls[p].pc = "resuming"
                    THEN [calls[p] EXCEPT !.pc = "escaped",
                                          !.outcome = "escaped",
                                          !.failedAt = "acquire"]
                    ELSE calls[p]]
    /\ UNCHANGED <<apiKey, gameStarted, isLoadingAudio, apiError,
                   audioContextRef, ctxState, ctxBuilt, currentSourceRef,
                   handles, lastStop, fnIn, fnOut,
                   lastResponse, quizVars>>

FirstAcquired(p) ==
    /\ calls[p].pc = "acquired"
    /\ \A q \in CallIds : calls[q].pc = "acquired" => p <= q

(* playTTS without setIsLoadingAudio(true) at line 121.                    *)
PlayTTSContinue_NoLoading(p) ==
    /\ calls[p].kind = "speak"
    /\ FirstAcquired(p)
    /\ IF ttsKeyMissing(apiKey)
       THEN /\ isLoadingAudio' = FALSE
            /\ apiError' = "voice"
            /\ calls' = [calls EXCEPT ![p].pc = "done",
                                      ![p].outcome = "caught",
                                      ![p].failedAt = "key"]
       ELSE /\ isLoadingAudio' = isLoadingAudio
            /\ apiError' = apiError
            /\ calls' = [calls EXCEPT ![p].pc = "requesting",
                                      ![p].requests = @ + 1]
    /\ UNCHANGED <<apiKey, gameStarted, audioContextRef, ctxState, ctxBuilt,
                   currentSourceRef, handles, lastStop, fnIn, fnOut,
                   lastResponse, quizVars>>

(* playTTS lines 121-137: set loading, test the key, issue the request.    *)
PlayTTSContinue(p) ==
    /\ calls[p].kind = "speak"
    /\ FirstAcquired(p)
    /\ IF ttsKeyMissing(apiKey)
       THEN /\ isLoadingAudio' = FALSE
            /\ apiError' = "voice"
            /\ calls' = [calls EXCEPT ![p].pc = "done",
                                      ![p].outcome = "caught",
                                      ![p].failedAt = "key"]
       ELSE /\ isLoadingAudio' = TRUE
            /\ apiError' = apiError
            /\ calls' = [calls EXCEPT ![p].pc = "requesting",
                                      ![p].requests = @ + 1]
    /\ UNCHANGED <<apiKey, gameStarted, audioContextRef, ctxState, ctxBuilt,
                   currentSourceRef, handles, lastStop, fnIn, fnOut,
                   lastResponse, quizVars>>

(* startGame without the credential test of line 159.                     *)
StartGameContinue_NoCheck(p) ==
    /\ calls[p].kind = "start"
    /\ FirstAcquired(p)
    /\ gameStarted' = TRUE
    /\ apiError' = apiError
    /\ timer' = narrationEffect(timer, state, gameStarted, view,
                                state, TRUE, view)
    /\ calls' = [calls EXCEPT ![p].pc = "done", ![p].outcome = "returned"]
    /\ UNCHANGED <<apiKey, isLoadingAudio, audioContextRef, ctxState,
                   ctxBuilt, currentSourceRef, handles, lastStop, fnIn,
                   fnOut, lastResponse, state, view>>

(* startGame lines 159-163, and the auto-narration effect of the render    *)
(* that follows the change of gameStarted.                                 *)
StartGameContinue(p) ==
    /\ calls[p].kind = "start"
    /\ FirstAcquired(p)
    /\ IF ~checkApiKey(apiKey)
       THEN /\ apiError' = "config"
            /\ gameStarted' = gameStarted
       ELSE /\ gameStarted' = TRUE
            /\ apiError' = apiError
    /\ timer' = narrationEffect(timer, state, gameStarted, view,
                                state, gameStarted', view)
    /\ calls' = [calls EXCEPT ![p].pc = "done", ![p].outcome = "returned"]
    /\ UNCHANGED <<apiKey, isLoadingAudio, audioContextRef, ctxState,
                   ctxBuilt, currentSourceRef, handles, lastStop, fnIn,
                   fnOut, lastResponse, state, view>>

(* The synthesis response of call p arrives (lines 139-149, or the catch   *)
(* of lines 150-154 when decoding raises).                                 *)
Respond(p, payload) ==
    /\ ~MicrotaskPending
    /\ calls[p].pc = "requesting"
    /\ LET r == handleResponse(p, payload, currentSourceRef, handles,
                               isLoadingAudio, apiError)
       IN  /\ currentSourceRef' = r.slot
           /\ handles' = r.hs
           /\ isLoadingAudio' = r.loading
           /\ apiError' = r.err
           /\ calls' = [calls EXCEPT ![p].pc = r.pc,
                                     ![p].outcome = r.outcome,
                                     ![p].failedAt = r.failedAt]
    /\ lastResponse' = [call |-> p, payload |-> payload]
    /\ UNCHANGED <<apiKey, gameStarted, audioContextRef, ctxState, ctxBuilt,
                   lastStop, fnIn, fnOut, quizVars>>

(* A catch block that issues the request again instead of giving up.       *)
RequestFails_Retries(p) ==
    /\ ~MicrotaskPending
    /\ calls[p].pc = "requesting"
    /\ calls[p].requests < 2
    /\ calls' = [calls EXCEPT ![p].requests = @ + 1]
    /\ UNCHANGED <<apiKey, gameStarted, isLoadingAudio, apiError,
                   audioContextRef, ctxState, ctxBuilt, currentSourceRef,
                   handles, lastStop, fnIn, fnOut, lastResponse, quizVars>>

(* The synthesis request of call p is rejected (lines 150-154).            *)
RequestFails(p) ==
    /\ ~MicrotaskPending
    /\ calls[p].pc = "requesting"
    /\ isLoadingAudio' = FALSE
    /\ apiError' = "voice"
    /\ calls' = [calls EXCEPT ![p].pc = "done", ![p].outcome = "caught",
                              ![p].failedAt = "request"]
    /\ UNCHANGED <<apiKey, gameStarted, audioContextRef, ctxState, ctxBuilt,
                   currentSourceRef, handles, lastStop, fnIn, fnOut,
                   lastResponse, quizVars>>

(* A playing source reaches the end of its buffer.                         *)
NaturalEnd(h) ==
    /\ ~MicrotaskPending
    /\ handles[h].st = "playing"
    /\ ctxState = "running"
    /\ handles' = [handles EXCEPT ![h] = [st |-> "ending", how |-> "natural"]]
    /\ UNCHANGED <<apiKey, gameStarted, isLoadingAudio, apiError,
                   audioContextRef, ctxState, ctxBuilt, currentSourceRef,
                   calls, lastStop, fnIn, fnOut,
                   lastResponse, quizVars>>

(* An onended callback that also empties the slot when it holds the        *)
(* source that ended.                                                      *)
EndedEvent_ClearsSlot(h) ==
    /\ ~MicrotaskPending
    /\ handles[h].st = "ending"
    /\ handles' = [handles EXCEPT ![h].st = "ended"]
    /\ isLoadingAudio' = FALSE
    /\ currentSourceRef' = (IF currentSourceRef = h THEN 0
                            ELSE currentSourceRef)
    /\ UNCHANGED <<apiKey, gameStarted, apiError, audioContextRef, ctxState,
                   ctxBuilt, calls, lastStop, fnIn, fnOut, lastResponse,
                   quizVars>>

(* An onended callback that leaves the loading indicator as it is.         *)
EndedEvent_NoClear(h) ==
    /\ ~MicrotaskPending
    /\ handles[h].st = "ending"
    /\ handles' = [handles EXCEPT ![h].st = "ended"]
    /\ UNCHANGED <<apiKey, gameStarted, isLoadingAudio, apiError,
                   audioContextRef, ctxState, ctxBuilt, currentSourceRef,
                   calls, lastStop, fnIn, fnOut, lastResponse, quizVars>>

(* The ended event of a finished or stopped source is dispatched: the      *)
(* onended callback of line 145 runs.                                      *)
EndedEvent(h) ==
    /\ ~MicrotaskPending
    /\ handles[h].st = "ending"
    /\ handles' = [handles EXCEPT ![h].st = "ended"]
    /\ isLoadingAudio' = FALSE
    /\ UNCHANGED <<apiKey, gameStarted, apiError, audioContextRef, ctxState,
                   ctxBuilt, currentSourceRef, calls, lastStop, fnIn, fnOut,
                   lastResponse, quizVars>>

(* The user agent suspends the running context.                            *)
EnvSuspend ==
    /\ ~MicrotaskPending
    /\ ctxState = "running"
    /\ ctxState' = "suspended"
    /\ UNCHANGED <<apiKey, gameStarted, isLoadingAudio, apiError,
                   audioContextRef, ctxBuilt, currentSourceRef, handles,
                   calls, lastStop, fnIn, fnOut,
                   lastResponse, quizVars>>

Next ==
    \/ \E p \in CallIds, ctor \in CtorOutcomes, legacy \in BOOLEAN :
          PlayTTS(p, ctor, legacy)
    \/ \E p \in CallIds, ctor \in CtorOutcomes : StartGame(p, ctor)
    \/ ResumeResolve
    \/ ResumeReject
    \/ \E p \in CallIds : PlayTTSContinue(p)
    \/ \E p \in CallIds : StartGameContinue(p)
    \/ \E p \in CallIds, payload \in PayloadSamples : Respond(p, payload)
    \/ \E p \in CallIds : RequestFails(p)
    \/ \E h \in CallIds : NaturalEnd(h)
    \/ \E h \in CallIds : EndedEvent(h)
    \/ EnvSuspend

Spec == Init /\ [][Next]_vars

-----------------------------------------------------------------------------
(* The game screen: the handlers that call playTTS and those that move     *)
(* the quiz within a mission. The mission-over card and its button (lines  *)
(* 275-280) are not part of this specification.                            *)
speechVars == <<isLoadingAudio, apiError, audioContextRef, ctxState, ctxBuilt,
                currentSourceRef, handles, calls, lastStop, lastResponse>>

PlayScreen == gameStarted /\ view = "play"

(* The game screen with its audio is explored for MaxGameCalls playTTS     *)
(* calls and with one synthesis response of each kind: none, playable,     *)
(* undecodable.                                                            *)
GameCallIds == 1..MaxGameCalls

GamePayloadSamples ==
    {NoPayload, PayloadOf(<<"A", "A", "E", "=">>), PayloadOf(<<"!">>)}

(* handleOptionClick, lines 166-199; the option buttons are rendered in    *)
(* the play view while the mission is not over (lines 258, 275, 305-318).  *)
handleOptionClick(p, isCorrect, ctor, legacy) ==
    /\ PlayScreen
    /\ ~state.isGameOver
    /\ ~state.showExplanation
    /\ ~MicrotaskPending
    /\ IF isCorrect
       THEN /\ state' = [state EXCEPT !.score = @ + 1,
                                      !.feedbackType = "success",
                                      !.showExplanation = TRUE]
            /\ InvokePlayTTS(p, ctor, legacy)
       ELSE IF state.attempts = 0
       THEN /\ state' = [state EXCEPT !.attempts = 1,
                                      !.feedbackType = "hint"]
            /\ InvokePlayTTS(p, ctor, legacy)
       ELSE /\ state' = [state EXCEPT !.feedbackType = "error",
                                      !.showExplanation = TRUE]
            /\ UNCHANGED <<apiKey, gameStarted, speechVars, fnIn, fnOut>>
    /\ UNCHANGED <<view, timer>>

(* The 'next question' button disabled while audio is loading, as the      *)
(* loudspeaker button is.                                                  *)
NextQuestion_AudioIdle ==
    /\ PlayScreen
    /\ ~state.isGameOver
    /\ state.feedbackType # "none"
    /\ state.showExplanation
    /\ ~isLoadingAudio
    /\ ~MicrotaskPending
    /\ state' = IF state.currentQuestionIndex + 1 >= QuestionsPerMission
                THEN [state EXCEPT !.isGameOver = TRUE]
                ELSE [state EXCEPT !.currentQuestionIndex = @ + 1,
                                   !.showExplanation = FALSE,
                                   !.feedbackType = "none",
                                   !.attempts = 0]
    /\ timer' = narrationEffect(timer, state, gameStarted, view,
                                state', gameStarted, view)
    /\ UNCHANGED <<apiKey, gameStarted, speechVars, view, fnIn, fnOut>>

(* The 'next question' button, lines 328-331, rendered with the            *)
(* explanation (lines 321-324).                                            *)
NextQuestion ==
    /\ PlayScreen
    /\ ~state.isGameOver
    /\ state.feedbackType # "none"
    /\ state.showExplanation
    /\ ~MicrotaskPending
    /\ state' = IF state.currentQuestionIndex + 1 >= QuestionsPerMission
                THEN [state EXCEPT !.isGameOver = TRUE]
                ELSE [state EXCEPT !.currentQuestionIndex = @ + 1,
                                   !.showExplanation = FALSE,
                                   !.feedbackType = "none",
                                   !.attempts = 0]
    /\ timer' = narrationEffect(timer, state, gameStarted, view,
                                state', gameStarted, view)
    /\ UNCHANGED <<apiKey, gameStarted, speechVars, view, fnIn, fnOut>>

(* A mission button, line 264.                                             *)
MissionSwitch(m) ==
    /\ PlayScreen
    /\ ~MicrotaskPending
    /\ state' = [state EXCEPT !.activeMission = m,
                              !.currentQuestionIndex = 0,
                              !.showExplanation = FALSE,
                              !.feedbackType = "none"]
    /\ timer' = narrationEffect(timer, state, gameStarted, view,
                                state', gameStarted, view)
    /\ UNCHANGED <<apiKey, gameStarted, speechVars, view, fnIn, fnOut>>

(* The 'play again' button of the mission-over card, line 279.             *)
PlayAgain ==
    /\ PlayScreen
    /\ state.isGameOver
    /\ ~MicrotaskPending
    /\ state' = [state EXCEPT !.isGameOver = FALSE,
                              !.currentQuestionIndex = 0,
                              !.score = 0]
    /\ timer' = narrationEffect(timer, state, gameStarted, view,
                                state', gameStarted, view)
    /\ UNCHANGED <<apiKey, gameStarted, speechVars, view, fnIn, fnOut>>

(* A footer button, lines 414-422.                                         *)
SetView(v) ==
    /\ gameStarted
    /\ ~MicrotaskPending
    /\ view' = v
    /\ timer' = narrationEffect(timer, state, gameStarted, view,
                                state, gameStarted, v)
    /\ UNCHANGED <<apiKey, gameStarted, speechVars, state, fnIn, fnOut>>

(* The loudspeaker button of the question, lines 289-295.                  *)
SpeakButton(p, ctor, legacy) ==
    /\ PlayScreen
    /\ ~state.isGameOver
    /\ ~isLoadingAudio
    /\ InvokePlayTTS(p, ctor, legacy)
    /\ UNCHANGED <<state, view, timer>>

(* The listen button of a generated story, line 401.                       *)
StoryListen(p, ctor, legacy) ==
    /\ gameStarted
    /\ view = "story"
    /\ InvokePlayTTS(p, ctor, legacy)
    /\ UNCHANGED <<state, view, timer>>

(* The timeout of line 203 elapses.                                        *)
TimerFires(p, ctor, legacy) ==
    /\ timer.armed
    /\ InvokePlayTTS(p, ctor, legacy)
    /\ timer' = NoTimer
    /\ UNCHANGED <<state, view>>

(* The game screen right after startGame has succeeded: the key passed    *)
(* checkApiKey, the one AudioContext exists and has been running, and the  *)
(* render that followed ran the auto-narration effect. The user agent may  *)
(* have suspended the context since.                                       *)
InitGame ==
    /\ apiKey = KeyOf([i \in 1..MinKeyLen |-> "a"])
    /\ gameStarted = TRUE
    /\ isLoadingAudio = FALSE
    /\ apiError = "none"
    /\ audioContextRef = 1
    /\ ctxState \in {"running", "suspended"}
    /\ ctxBuilt = 1
    /\ currentSourceRef = 0
    /\ handles = [h \in CallIds |-> NoHandle]
    /\ calls = [p \in CallIds |-> IdleCall]
    /\ lastStop = NoStop
    /\ lastResponse = NoResponse
    /\ state = InitialState
    /\ view = "play"
    /\ timer = narrationEffect(NoTimer, InitialState, FALSE, "play",
                               InitialState, TRUE, "play")
    /\ fnIn = <<>>
    /\ fnOut = NotRun

NextGame ==
    \/ ResumeResolve
    \/ ResumeReject
    \/ \E p \in CallIds : PlayTTSContinue(p)
    \/ \E p \in CallIds, payload \in GamePayloadSamples : Respond(p, payload)
    \/ \E p \in CallIds : RequestFails(p)
    \/ \E h \in CallIds : NaturalEnd(h)
    \/ \E h \in CallIds : EndedEvent(h)
    \/ EnvSuspend
    \/ \E p \in GameCallIds, isCorrect \in BOOLEAN, ctor \in CtorOutcomes,
          legacy \in BOOLEAN : handleOptionClick(p, isCorrect, ctor, legacy)
    \/ NextQuestion
    \/ \E m \in MissionSamples : MissionSwitch(m)
    \/ \E v \in Views : SetView(v)
    \/ \E p \in GameCallIds, ctor \in CtorOutcomes, legacy \in BOOLEAN :
          SpeakButton(p, ctor, legacy)
    \/ \E p \in GameCallIds, ctor \in CtorOutcomes, legacy \in BOOLEAN :
          StoryListen(p, ctor, legacy)
    \/ \E p \in GameCallIds, ctor \in CtorOutcomes, legacy \in BOOLEAN :
          TimerFires(p, ctor, legacy)

SpecGame == InitGame /\ [][NextGame]_vars

-----------------------------------------------------------------------------
(* The quiz over a whole mission, mission-over card and 'play again'       *)
(* included. Every handler runs as above, playTTS calls and their          *)
(* continuations included; the synthesis requests stay pending (they have  *)
(* no timeout), since no later audio step writes the quiz state, the view  *)
(* or the narration timer.                                                  *)
InitQuiz ==
    /\ InitGame
    /\ ctxState = "running"

NextQuiz ==
    \/ \E p \in CallIds : PlayTTSContinue(p)
    \/ \E p \in CallIds, isCorrect \in BOOLEAN, ctor \in CtorOutcomes,
          legacy \in BOOLEAN : handleOptionClick(p, isCorrect, ctor, legacy)
    \/ NextQuestion
    \/ \E m \in MissionSamples : MissionSwitch(m)
    \/ PlayAgain
    \/ \E v \in Views : SetView(v)
    \/ \E p \in CallIds, ctor \in CtorOutcomes, legacy \in BOOLEAN :
          SpeakButton(p, ctor, legacy)
    \/ \E p \in CallIds, ctor \in CtorOutcomes, legacy \in BOOLEAN :
          StoryListen(p, ctor, legacy)
    \/ \E p \in CallIds, ctor \in CtorOutcomes, legacy \in BOOLEAN :
          TimerFires(p, ctor, legacy)

SpecQuiz == InitQuiz /\ [][NextQuiz]_vars

-----------------------------------------------------------------------------
(* The byte decoder on arbitrary text.                                     *)
B64CharSamples == {"A", "Q", "/", "=", " ", "!"}

InitB64 ==
    /\ MainInit({NoKey})
    /\ fnIn \in SeqsUpTo(B64CharSamples, MaxB64Len)
    /\ fnOut = NotRun

DecodeBase64Call ==
    /\ fnOut = NotRun
    /\ LET r == decodeBase64(fnIn)
       IN  fnOut' = [run |-> TRUE, raised |-> r.raised, bytes |-> r.bytes]
    /\ UNCHANGED <<mainVars, fnIn>>

NextB64 == DecodeBase64Call

SpecB64 == InitB64 /\ [][NextB64]_vars

(* The byte decoder on the standard encoding of a byte sequence.           *)
ByteSamples == {0, 1, 77, 128, 255}

InitRoundTrip ==
    /\ MainInit({NoKey})
    /\ fnIn \in SeqsUpTo(ByteSamples, MaxBytes)
    /\ fnOut = NotRun

EncodeThenDecode ==
    /\ fnOut = NotRun
    /\ LET r == decodeBase64(btoa(fnIn))
       IN  fnOut' = [run |-> TRUE, raised |-> r.raised, bytes |-> r.bytes]
    /\ UNCHANGED <<mainVars, fnIn>>

NextRoundTrip == EncodeThenDecode

SpecRoundTrip == InitRoundTrip /\ [][NextRoundTrip]_vars

(* The PCM decoder on arbitrary bytes and channel counts.                  *)
PcmByteSamples == {0, 127, 128, 255}

InitPcm ==
    /\ MainInit({NoKey})
    /\ fnIn \in [data : SeqsUpTo(PcmByteSamples, MaxPcmBytes),
                 numChannels : 1..MaxChannels]
    /\ fnOut = NotRun

DecodeAudioDataCall ==
    /\ fnOut = NotRun
    /\ LET r == decodeAudioData(fnIn.data, fnIn.numChannels)
       IN  fnOut' = [run |-> TRUE, raised |-> r.raised,
                     numberOfChannels |-> r.numberOfChannels,
                     length |-> r.length, sampleRate |-> r.sampleRate,
                     channelData |-> r.channelData]
    /\ UNCHANGED <<mainVars, fnIn>>

NextPcm == DecodeAudioDataCall

SpecPcm == InitPcm /\ [][NextPcm]_vars

-----------------------------------------------------------------------------
AllSettled == \A p \in CallIds : ~InFlight(calls[p])

(* C1: if speak(B) is invoked while speak(A)'s synthesis request is still  *)
(* pending, then once both calls have settled at most one playback handle  *)
(* is started and not yet ended.                                           *)
C1_AtMostOnePlaying ==
    (AllSettled /\ \E p \in CallIds : calls[p].overlapped)
        => Cardinality(Playing) <= 1

(* C2: when the synthesis response contains no audio payload, speak leaves *)
(* the loading indicator false, creates no playback handle and does not    *)
(* set the error indicator.                                                *)
C2_NoAudioClearsLoading ==
    [][\A p \in CallIds :
          (calls[p].pc = "requesting" /\ calls'[p].outcome = "noaudio")
              => /\ isLoadingAudio' = FALSE
                 /\ handles'[p].st = "none"
                 /\ apiError' = apiError]_vars

(* C3: an exception raised during speak's steps 2-6 is caught inside       *)
(* speak: the call ends normally, never with the exception escaping it.    *)
C3_ExceptionsCaught ==
    \A p \in CallIds :
        (calls[p].kind = "speak" /\ calls[p].failedAt # "-")
            => (calls[p].pc = "done" /\ calls[p].outcome = "caught")

(* C4: after any interleaving of acquire calls from speak and startGame,   *)
(* at most one audio session has been constructed, exactly one once an     *)
(* acquire has returned, and every acquire returned that instance.         *)
C4_OneSession ==
    /\ ctxBuilt <= 1
    /\ \A p \in CallIds :
          calls[p].ctx # 0
              => (ctxBuilt = 1 /\ calls[p].ctx = 1 /\ audioContextRef = 1)

C4_Witness ==
    \E p, q \in CallIds :
        /\ calls[p].kind = "start" /\ calls[p].ctx = 1
        /\ calls[q].kind = "speak" /\ calls[q].ctx = 1
        /\ \E r \in CallIds : r # q /\ calls[r].kind = "speak"
                                     /\ calls[r].ctx = 1

(* C5: acquire returns only with the session running; on a suspended       *)
(* session it has awaited resume() first.                                  *)
C5_RunningOnReturn ==
    \A p \in CallIds : calls[p].pc = "acquired" => ctxState = "running"

C5_Witness ==
    \E p, q \in CallIds :
        /\ q < p
        /\ calls[q].ctx # 0
        /\ calls[p].pc = "acquired"
        /\ calls[p].awaited

(* C6: stopCurrent never raises, whatever state the tracked handle is in.  *)
C6_StopNeverRaises ==
    /\ ~lastStop.raised
    /\ \A p \in CallIds : calls[p].failedAt # "stop"

C6_Witness ==
    /\ lastStop.ran
    /\ lastStop.threw
    /\ lastStop.met \in {"ending", "ended"}
    /\ \E p \in CallIds : calls[p].kind = "speak" /\ InFlight(calls[p])

(* C7: after stopCurrent returns no playback handle is tracked as current, *)
(* whether the stop request succeeded or raised.                           *)
C7_SlotClearedAfterStop ==
    [][(\E p \in CallIds : calls[p].pc = "idle" /\ calls'[p].kind = "speak")
          => currentSourceRef' = 0]_vars

C7_Witness ==
    /\ lastStop.ran
    /\ lastStop.threw
    /\ currentSourceRef = 0
    /\ \E h \in CallIds : handles[h].st \in {"ending", "ended"}
                          /\ handles[h].how = "natural"

-----------------------------------------------------------------------------
(* Malformed in the strict sense of RFC 4648: not a multiple of four       *)
(* alphabet characters ending in at most two "=".                          *)
PadCount(s) ==
    IF Len(s) >= 2 /\ s[Len(s)] = "=" /\ s[Len(s) - 1] = "=" THEN 2
    ELSE IF Len(s) >= 1 /\ s[Len(s)] = "=" THEN 1
    ELSE 0

StrictWellFormed(s) ==
    /\ Len(s) % 4 = 0
    /\ \A i \in 1..(Len(s) - PadCount(s)) : s[i] \in B64Chars

(* Text the decoder cannot decode: after dropping ASCII whitespace, a      *)
(* character outside the alphabet, a "=" that is not one of the last two   *)
(* characters of a text whose length is a multiple of four, or a length of *)
(* 1 mod 4 once that padding is dropped.                                   *)
Undecodable(s) ==
    LET d == StripWs(s)
        pad == IF Len(d) % 4 = 0 THEN PadCount(d) ELSE 0
        core == Len(d) - pad
    IN  \/ \E i \in 1..core : d[i] \notin B64Chars
        \/ core % 4 = 1

(* C8 as stated: for any malformed base64 string the byte decoder returns  *)
(* a zero-length byte sequence and does not raise.                         *)
C8_MalformedGivesEmpty ==
    (fnOut.run /\ ~StrictWellFormed(fnIn))
        => (~fnOut.raised /\ fnOut.bytes = <<>>)

(* C8, amended: the byte decoder never raises, and returns a zero-length   *)
(* byte sequence for every text that cannot be decoded; missing padding    *)
(* and ASCII whitespace are tolerated.                                     *)
C8_UndecodableGivesEmpty ==
    fnOut.run => /\ ~fnOut.raised
                 /\ Undecodable(fnIn) => fnOut.bytes = <<>>

C8_Witness ==
    /\ fnOut.run
    /\ Undecodable(fnIn)
    /\ Len(fnIn) = 4
    /\ fnIn[3] = "="
    /\ fnIn[4] = "A"

(* C9: decoding the standard base64 encoding of N bytes returns exactly    *)
(* those N bytes.                                                          *)
C9_RoundTrip ==
    fnOut.run => /\ ~fnOut.raised
                 /\ Len(fnOut.bytes) = Len(fnIn)
                 /\ fnOut.bytes = fnIn

C9_Witness ==
    /\ fnOut.run
    /\ Len(fnIn) = 2
    /\ fnIn[1] = 255
    /\ fnOut.bytes = <<255, 77>>

(* C10: for any byte buffer and channel count the PCM decoder yields       *)
(* exactly floor(byteLength / 2 / channelCount) frames per channel,        *)
(* dropping trailing bytes without raising.                                *)
C10_FrameCount ==
    fnOut.run =>
        /\ ~fnOut.raised
        /\ fnOut.length = Len(fnIn.data) \div (2 * fnIn.numChannels)
        /\ fnOut.numberOfChannels = fnIn.numChannels
        /\ \A c \in 1..fnIn.numChannels :
              Len(fnOut.channelData[c])
                  = Len(fnIn.data) \div (2 * fnIn.numChannels)

-----------------------------------------------------------------------------
(* Raw 16-bit sample number k (from 0) of the bytes, read as signed        *)
(* little-endian.                                                          *)
RawSample(data, k) ==
    ((data[2 * k + 1] + 256 * data[2 * k + 2] + 32768) % 65536) - 32768

(* C11: for every channel c and frame i the decoded sample [c][i] is the   *)
(* signed 16-bit little-endian raw sample number i*channelCount + c        *)
(* divided by 32768, and so lies in [-1.0, 1.0].                           *)
C11_SampleValues ==
    (fnOut.run /\ ~fnOut.raised) =>
        \A c \in 1..fnIn.numChannels : \A f \in 1..fnOut.length :
            LET x == fnOut.channelData[c][f]
            IN  /\ x.den = 32768
                /\ x.num = RawSample(fnIn.data,
                                     (f - 1) * fnIn.numChannels + (c - 1))
                /\ -x.den <= x.num
                /\ x.num <= x.den

C11_Witness ==
    /\ fnOut.run
    /\ ~fnOut.raised
    /\ fnIn.numChannels = 2
    /\ fnOut.length = 1
    /\ fnOut.channelData[1][1].num = -32768
    /\ fnOut.channelData[2][1].num = 32767

(* C12: decoding an empty byte buffer returns a zero-frame buffer and does *)
(* not raise.                                                              *)
C12_EmptyBuffer ==
    (fnOut.run /\ fnIn.data = <<>>)
        => (~fnOut.raised /\ fnOut.length = 0)

-----------------------------------------------------------------------------
(* The credential check on arbitrary credentials.                          *)
KeyCharSamples == {"a", "9"}

InitKey ==
    /\ MainInit({NoKey})
    /\ fnIn \in {NoKey, KeyOf(UndefinedLiteral)}
                \cup {KeyOf(cs) : cs \in SeqsUpTo(KeyCharSamples, MaxKeyLen)}
    /\ fnOut = NotRun

CheckApiKeyCall ==
    /\ fnOut = NotRun
    /\ fnOut' = [run |-> TRUE, valid |-> checkApiKey(fnIn)]
    /\ UNCHANGED <<mainVars, fnIn>>

NextKey == CheckApiKeyCall

SpecKey == InitKey /\ [][NextKey]_vars

(* C14: the credential check reports invalid exactly when the credential   *)
(* is absent, the literal "undefined", empty, or shorter than 10           *)
(* characters, and valid otherwise.                                        *)
C14_CredentialCheck ==
    fnOut.run =>
        (fnOut.valid <=>
            /\ fnIn.present
            /\ fnIn.chars # <<"u","n","d","e","f","i","n","e","d">>
            /\ Len(fnIn.chars) # 0
            /\ Len(fnIn.chars) >= 10)

C14_Witness ==
    /\ fnOut.run
    /\ fnIn.present
    /\ Len(fnIn.chars) = 10
    /\ fnOut.valid

-----------------------------------------------------------------------------
(* Number of bytes the text decodes to, were it decodable.                 *)
DecodedLen(s) ==
    LET d == StripWs(s)
        pad == IF Len(d) % 4 = 0 THEN PadCount(d) ELSE 0
    IN  ((Len(d) - pad) * 3) \div 4

(* Malformed payload: not strict base64, or bytes that do not make whole   *)
(* 16-bit samples.                                                         *)
MalformedPayload(s) == ~StrictWellFormed(s) \/ DecodedLen(s) % 2 = 1

(* Payload without a single playable frame: undecodable text, or fewer     *)
(* than two bytes.                                                         *)
UnplayablePayload(s) == Undecodable(s) \/ DecodedLen(s) < 2

(* C13 as stated: a synthesis response with a malformed payload degrades   *)
(* to no audio: the exception does not escape speak, no handle is created  *)
(* and the call ends with the loading indicator cleared.                   *)
C13_MalformedDegrades ==
    [][(/\ lastResponse' # lastResponse
        /\ Truthy(lastResponse'.payload)
        /\ MalformedPayload(lastResponse'.payload.data))
          => /\ calls'[lastResponse'.call].pc = "done"
             /\ handles'[lastResponse'.call].st = "none"
             /\ isLoadingAudio' = FALSE]_vars

(* C13, amended: a response whose payload is undecodable base64 or holds   *)
(* no complete 16-bit sample is caught inside speak: no handle is created, *)
(* the loading indicator is cleared and the error indicator is set.        *)
C13_UnplayableDegrades ==
    [][(/\ lastResponse' # lastResponse
        /\ Truthy(lastResponse'.payload)
        /\ UnplayablePayload(lastResponse'.payload.data))
          => /\ calls'[lastResponse'.call].pc = "done"
             /\ calls'[lastResponse'.call].outcome = "caught"
             /\ handles'[lastResponse'.call].st = "none"
             /\ currentSourceRef' = currentSourceRef
             /\ isLoadingAudio' = FALSE
             /\ apiError' = "voice"]_vars

C13_Witness ==
    /\ lastResponse.call # 0
    /\ lastResponse.payload = PayloadOf(<<"!">>)
    /\ calls[lastResponse.call].outcome = "caught"
    /\ calls[lastResponse.call].failedAt = "decode"
    /\ ~isLoadingAudio
    /\ apiError = "voice"

(* C15: startGame sets gameStarted exactly when the credential check       *)
(* passes; with an absent or invalid credential it sets the error          *)
(* indicator and leaves gameStarted false.                                 *)
C15_StartGate ==
    /\ gameStarted =>
          \E p \in CallIds : calls[p].kind = "start" /\ calls[p].pc = "done"
    /\ \A p \in CallIds :
          (calls[p].kind = "start" /\ calls[p].pc = "done")
              => /\ gameStarted <=> checkApiKey(apiKey)
                 /\ ~checkApiKey(apiKey) => apiError = "config"

C15_Witness ==
    /\ apiKey.present
    /\ Len(apiKey.chars) = 5
    /\ \E p \in CallIds : calls[p].kind = "start" /\ calls[p].pc = "done"
    /\ ~gameStarted
    /\ apiError = "config"

(* C17: whenever speak stores a newly created handle as current, the       *)
(* previously tracked handle has already been stopped: a handle that is    *)
(* still playing is never overwritten in the slot.                         *)
C17_NoPlayingOverwritten ==
    [][(currentSourceRef # 0 /\ currentSourceRef' # 0
        /\ currentSourceRef' # currentSourceRef)
          => handles[currentSourceRef].st # "playing"]_vars

(* C18: once all overlapping speak calls have settled, the slot holds the  *)
(* handle of the most recently issued speak, never that of an earlier call.*)
C18_LatestWinsSlot ==
    (AllSettled /\ currentSourceRef # 0)
        => \A p \in CallIds :
              calls[p].kind = "speak" => p <= currentSourceRef

(* C19: speak runs stopCurrent on every invocation, before its first       *)
(* suspension point: when it first yields, the previously tracked handle   *)
(* has been asked to stop and the slot is empty.                           *)
C19_StopBeforeYield ==
    [][\A p \in CallIds :
          (calls[p].pc = "idle" /\ calls'[p].kind = "speak")
              => /\ lastStop'.ran
                 /\ lastStop'.by = p
                 /\ currentSourceRef' = 0
                 /\ currentSourceRef # 0
                       => handles'[currentSourceRef].st # "playing"]_vars

C19_Witness ==
    /\ lastStop.by # 0
    /\ lastStop.met = "playing"
    /\ calls[lastStop.by].pc = "resuming"
    /\ currentSourceRef = 0
    /\ \E h \in CallIds : handles[h].st = "ending" /\ handles[h].how = "stop"

(* C20 as stated: after a handle's natural completion the current slot no  *)
(* longer refers to it.                                                    *)
C20_UntrackedAfterEnd ==
    \A h \in CallIds :
        (handles[h].st = "ended" /\ handles[h].how = "natural")
            => currentSourceRef # h

(* C20, amended: a stored handle stays in the slot until the next speak's  *)
(* stopCurrent empties the slot or a later response stores another         *)
(* handle; natural completion leaves the slot as it is.                    *)
C20_TrackedUntilStopOrReplaced ==
    [][(currentSourceRef # 0 /\ currentSourceRef' # currentSourceRef)
          => \/ /\ currentSourceRef' = 0
                /\ \E p \in CallIds :
                      calls[p].pc = "idle" /\ calls'[p].kind = "speak"
             \/ /\ currentSourceRef' # 0
                /\ handles[currentSourceRef'].st = "none"
                /\ handles'[currentSourceRef'].st = "playing"]_vars

C20_Witness ==
    /\ currentSourceRef # 0
    /\ handles[currentSourceRef].st = "ended"
    /\ handles[currentSourceRef].how = "natural"
    /\ AllSettled

-----------------------------------------------------------------------------
(* Some playTTS call is issued in the step.                                *)
CallIssued ==
    \E p \in CallIds : calls[p].pc = "idle" /\ calls'[p].pc # "idle"

OptionsShown == PlayScreen /\ ~state.isGameOver /\ ~state.showExplanation

NextShown ==
    /\ PlayScreen
    /\ ~state.isGameOver
    /\ state.feedbackType # "none"
    /\ state.showExplanation

(* The quiz transitions the screen offers are available whatever the       *)
(* audio state: a correct answer scores, a first wrong answer gives the    *)
(* hint, a second one ends the question, 'next' advances or ends the       *)
(* mission.                                                                *)
QuizNeverBlocked ==
    /\ (OptionsShown /\ ~MicrotaskPending /\ NextId \in GameCallIds) =>
          /\ ENABLED (/\ handleOptionClick(NextId, TRUE, "running", FALSE)
                      /\ state' = [state EXCEPT !.score = @ + 1,
                                                !.feedbackType = "success",
                                                !.showExplanation = TRUE])
          /\ state.attempts = 0 =>
                ENABLED (/\ handleOptionClick(NextId, FALSE, "running", FALSE)
                         /\ state' = [state EXCEPT !.attempts = 1,
                                                   !.feedbackType = "hint"])
    /\ (OptionsShown /\ ~MicrotaskPending /\ state.attempts # 0) =>
          ENABLED (/\ handleOptionClick(1, FALSE, "running", FALSE)
                   /\ state' = [state EXCEPT !.feedbackType = "error",
                                             !.showExplanation = TRUE])
    /\ (NextShown /\ ~MicrotaskPending) =>
          ENABLED (/\ NextQuestion
                   /\ state' =
                        IF state.currentQuestionIndex + 1
                              >= QuestionsPerMission
                        THEN [state EXCEPT !.isGameOver = TRUE]
                        ELSE [state EXCEPT !.currentQuestionIndex = @ + 1,
                                           !.showExplanation = FALSE,
                                           !.feedbackType = "none",
                                           !.attempts = 0])

-----------------------------------------------------------------------------
SpeakCalls == {p \in CallIds : calls[p].kind = "speak"}

(* Call p has set loading and has not settled: its request is pending, or  *)
(* the handle it started has not yet run its completion callback.          *)
LoadingWindow(p) ==
    /\ calls[p].kind = "speak"
    /\ \/ calls[p].pc = "requesting"
       \/ calls[p].outcome = "played" /\ handles[p].st \in {"playing", "ending"}

(* No other speak call overlaps p: none is in flight and no other handle   *)
(* is playing or has its completion callback pending.                      *)
NoOverlap(p) ==
    \A q \in CallIds \ {p} :
        /\ ~(calls[q].kind = "speak" /\ InFlight(calls[q]))
        /\ handles[q].st \notin {"playing", "ending"}

(* C21: when a handle started by speak ends, its completion callback sets  *)
(* the loading indicator to false and runs once, the handle being ended    *)
(* for good afterwards; and while no other speak call overlaps, loading    *)
(* is set when the request is issued and is not cleared before the call's  *)
(* own handle completes (or the call fails).                               *)
C21_CompletionClearsLoading ==
    [][\A p \in CallIds :
          /\ (handles[p].st = "ending" /\ handles'[p].st # "ending")
                => (handles'[p].st = "ended" /\ isLoadingAudio' = FALSE)
          /\ handles[p].st = "ended" => handles'[p] = handles[p]
          /\ (calls[p].kind = "speak" /\ calls[p].pc # "requesting"
              /\ calls'[p].pc = "requesting") => isLoadingAudio' = TRUE
          /\ (LoadingWindow(p) /\ NoOverlap(p) /\ isLoadingAudio
              /\ isLoadingAudio' = FALSE)
                => \/ handles[p].st = "ending" /\ handles'[p].st = "ended"
                   \/ calls'[p].outcome = "caught"]_vars

C21_Witness ==
    /\ Cardinality(SpeakCalls) = 1
    /\ \E p \in SpeakCalls :
          /\ calls[p].outcome = "played"
          /\ handles[p] = [st |-> "ended", how |-> "natural"]
    /\ isLoadingAudio = FALSE

-----------------------------------------------------------------------------
(* C22: within one speak call the steps run in this order: stopCurrent,    *)
(* acquire, set loading, issue the request, decode, store the handle,      *)
(* start it. Loading is never set before acquire has returned, the         *)
(* request is issued with loading set, and a handle is started only by     *)
(* the response to the call's request, stored as current when it starts.   *)
C22_StepOrder ==
    [][/\ \A p \in CallIds :
             /\ (calls[p].pc = "idle" /\ calls'[p].kind = "speak")
                   => /\ lastStop'.by = p
                      /\ calls'[p].pc \in {"resuming", "acquired", "escaped"}
                      /\ calls'[p].requests = 0
                      /\ isLoadingAudio' = isLoadingAudio
             /\ (calls[p].kind = "speak" /\ calls[p].pc = "resuming")
                   => /\ calls'[p].pc \in {"resuming", "acquired", "escaped"}
                      /\ calls'[p].requests = 0
             /\ (calls[p].kind = "speak" /\ calls[p].pc = "acquired")
                   => /\ calls'[p].pc \in {"acquired", "requesting", "done"}
                      /\ calls'[p].pc = "requesting"
                            => (isLoadingAudio' /\ calls'[p].requests = 1)
             /\ (calls[p].kind = "speak" /\ calls[p].pc = "requesting")
                   => /\ calls'[p].pc \in {"requesting", "done"}
                      /\ calls'[p].requests = 1
             /\ (calls[p].kind = "speak" /\ Settled(calls[p]))
                   => calls'[p] = calls[p]
             /\ (handles[p].st = "none" /\ handles'[p].st # "none")
                   => /\ calls[p].pc = "requesting"
                      /\ calls'[p].pc = "done"
                      /\ handles'[p].st = "playing"
                      /\ currentSourceRef' = p
       /\ (~isLoadingAudio /\ isLoadingAudio')
             => \E p \in CallIds :
                   /\ calls[p].kind = "speak"
                   /\ calls[p].pc = "acquired"
                   /\ calls'[p].pc = "requesting"]_vars

C22_Witness ==
    \E p \in CallIds :
        /\ calls[p].outcome = "played"
        /\ calls[p].awaited
        /\ calls[p].requests = 1
        /\ lastStop.by = p
        /\ lastStop.met = "playing"
        /\ currentSourceRef = p
        /\ handles[p].st = "playing"

-----------------------------------------------------------------------------
(* C23: each speak call issues at most one synthesis request: exactly one  *)
(* once acquire has succeeded with a credential present, none when the     *)
(* acquire failed or the credential is missing; a failed or empty          *)
(* response settles the call, which issues nothing further.                *)
C23_OneRequest ==
    \A p \in SpeakCalls :
        /\ calls[p].requests <= 1
        /\ calls[p].requests = 1 <=>
              (/\ calls[p].pc \in {"requesting", "done"}
               /\ calls[p].failedAt # "key"
               /\ ~ttsKeyMissing(apiKey))
        /\ calls[p].outcome \in {"noaudio", "caught"} => calls[p].pc = "done"

C23_Witness ==
    \E p \in SpeakCalls, q \in SpeakCalls :
        /\ calls[p].pc = "done"
        /\ calls[p].failedAt = "request"
        /\ calls[p].requests = 1
        /\ calls[q].outcome = "noaudio"
        /\ calls[q].requests = 1

-----------------------------------------------------------------------------
(* C24: while the synthesis request of a speak call stays unanswered, no   *)
(* timeout acts on it: the call stays pending, and with no other speak     *)
(* activity the loading indicator, set when the request was issued, stays  *)
(* true and the error indicator is not touched, however long the wait.     *)
LoadingWhilePending ==
    \A p \in SpeakCalls :
        (calls[p].pc = "requesting" /\ Cardinality(SpeakCalls) = 1)
            => isLoadingAudio

C24_NoTimeout ==
    /\ []LoadingWhilePending
    /\ [][\A p \in CallIds :
             (/\ calls[p].kind = "speak"
              /\ calls[p].pc = "requesting"
              /\ ~(lastResponse' # lastResponse /\ lastResponse'.call = p)
              /\ calls'[p].failedAt # "request")
                => /\ calls'[p].pc = "requesting"
                   /\ (NoOverlap(p) /\ ~CallIssued)
                         => /\ isLoadingAudio' = isLoadingAudio
                            /\ apiError' = apiError]_vars

C24_Witness ==
    /\ Cardinality(SpeakCalls) = 1
    /\ \E p \in SpeakCalls :
          /\ calls[p].pc = "requesting"
          /\ calls[p].awaited = FALSE
    /\ ctxState = "suspended"
    /\ isLoadingAudio
    /\ apiError = "none"


-----------------------------------------------------------------------------
(* The synthesis request playTTS builds from its two parameters.  The text  *)
(* is a sequence of tokens; the template literal joins the instruction (or  *)
(* the empty string), one space and the text.                               *)
TextSamples == {"Repeat clearly:", " ", "a"}

synthesisRequest_AlwaysPrefix(text, isEnglish) ==
    [contents  |-> <<"Repeat clearly:">> \o <<" ">> \o text,
     voiceName |-> IF isEnglish THEN "Charon" ELSE "Kore"]

synthesisRequest(text, isEnglish) ==
    [contents  |-> (IF isEnglish THEN <<"Repeat clearly:">> ELSE <<>>)
                       \o <<" ">> \o text,
     voiceName |-> IF isEnglish THEN "Charon" ELSE "Kore"]

InitRequest ==
    /\ MainInit({NoKey})
    /\ fnIn \in [text : SeqsUpTo(TextSamples, MaxTextLen),
                 isEnglish : BOOLEAN]
    /\ fnOut = NotRun

SynthesisRequestCall ==
    /\ fnOut = NotRun
    /\ fnOut' = [run |-> TRUE,
                 request |-> synthesisRequest(fnIn.text, fnIn.isEnglish)]
    /\ UNCHANGED <<mainVars, fnIn>>

NextRequest == SynthesisRequestCall

SpecRequest == InitRequest /\ [][NextRequest]_vars

(* C25: the request starts with the 'Repeat clearly:' instruction and names *)
(* the voice 'Charon' exactly when isEnglish is true; otherwise it names    *)
(* 'Kore' and its contents are the text alone, with no instruction added.   *)
C25_RequestShape ==
    fnOut.run =>
        LET r == fnOut.request
        IN  /\ (Head(r.contents) = "Repeat clearly:") <=> fnIn.isEnglish
            /\ (r.voiceName = "Charon") <=> fnIn.isEnglish
            /\ fnIn.isEnglish =>
                   r.contents = <<"Repeat clearly:", " ">> \o fnIn.text
            /\ ~fnIn.isEnglish =>
                   /\ r.voiceName = "Kore"
                   /\ r.contents = <<" ">> \o fnIn.text

C25_Witness ==
    /\ fnOut.run
    /\ ~fnIn.isEnglish
    /\ Len(fnIn.text) > 0
    /\ Head(fnIn.text) = "Repeat clearly:"
    /\ fnOut.request.voiceName = "Kore"
    /\ Len(fnOut.request.contents) = Len(fnIn.text) + 1

-----------------------------------------------------------------------------
(* The most recently issued speak call: call ids are handed out in issue    *)
(* order.                                                                   *)
LatestSpeak(p) ==
    p \in SpeakCalls /\ \A q \in SpeakCalls : q <= p

(* C26: while the most recently issued speak call is between setting        *)
(* loading and settling (request pending, or its own handle started and     *)
(* not yet ended), the loading indicator is true.                           *)
C26_LatestKeepsLoading ==
    \A p \in CallIds :
        (LatestSpeak(p) /\ LoadingWindow(p)) => isLoadingAudio

-----------------------------------------------------------------------------
(* C27: once every speak call has settled, the error indicator reflects    *)
(* the most recently issued one: clear if that call started playback, set  *)
(* to 'voice unavailable' if that call failed.                             *)
C27_ErrorReflectsLatest ==
    AllSettled =>
        \A p \in CallIds :
            LatestSpeak(p) =>
                /\ calls[p].outcome = "played" => apiError = "none"
                /\ calls[p].outcome = "caught" => apiError = "voice"

-----------------------------------------------------------------------------
(* C28: a synthesis request is only issued once the game has started, and  *)
(* so only with a credential that passed checkApiKey (present, not         *)
(* "undefined", at least MinKeyLen characters), although playTTS itself    *)
(* tests only for an absent or "undefined" credential.                     *)
C28_RequestOnlyAfterStart ==
    \A p \in CallIds :
        calls[p].requests > 0
            => /\ calls[p].kind = "speak"
               /\ gameStarted
               /\ checkApiKey(apiKey)
               /\ apiKey.present
               /\ apiKey.chars # UndefinedLiteral
               /\ Len(apiKey.chars) >= MinKeyLen

C28_Witness ==
    /\ gameStarted
    /\ \E p \in SpeakCalls :
          calls[p].pc = "requesting" /\ calls[p].requests = 1
    /\ Len(apiKey.chars) = MinKeyLen

-----------------------------------------------------------------------------
(* The timeout callback of line 203 runs: the pending timer is consumed    *)
(* and playTTS is called.                                                  *)
TimerFired == timer.armed /\ ~timer'.armed /\ CallIssued

(* C29: the auto-narration timer is armed only by a render with the game   *)
(* started, not over, no explanation showing and the play view active,     *)
(* for the question then displayed; and when it fires, the question it     *)
(* narrates is still the displayed one.                                    *)
C29_TimerNarratesDisplayed ==
    [][/\ (timer' # timer /\ timer'.armed)
             => /\ gameStarted' /\ view' = "play"
                /\ ~state'.isGameOver /\ ~state'.showExplanation
                /\ timer'.mission = state'.activeMission
                /\ timer'.index = state'.currentQuestionIndex
       /\ (EffectDeps(state', gameStarted', view')
                   # EffectDeps(state, gameStarted, view) /\ timer'.armed)
             => /\ timer'.mission = state'.activeMission
                /\ timer'.index = state'.currentQuestionIndex
       /\ TimerFired
             => /\ PlayScreen
                /\ ~state.isGameOver
                /\ timer.mission = state.activeMission
                /\ timer.index = state.currentQuestionIndex]_vars

-----------------------------------------------------------------------------
(* C30: whenever a question is displayed that has not been answered yet    *)
(* (no feedback, no explanation), attempts is 0.                           *)
C30_FreshQuestionZeroAttempts ==
    (PlayScreen /\ ~state.isGameOver /\ ~state.showExplanation
        /\ state.feedbackType = "none")
        => state.attempts = 0

-----------------------------------------------------------------------------
(* A step after which a question appears that the player has not acted on: *)
(* the question index or the mission changed, or the mission-over card     *)
(* was left, and the play screen shows a question.                         *)
QuestionAppears ==
    /\ gameStarted' /\ view' = "play" /\ ~state'.isGameOver
    /\ \/ state.isGameOver
       \/ state'.currentQuestionIndex # state.currentQuestionIndex
       \/ state'.activeMission # state.activeMission

(* C31: a question that appears (after 'next', after a mission switch,     *)
(* after 'play again') is displayed with showExplanation false and         *)
(* feedbackType 'none', so its options are enabled.                        *)
C31_FreshQuestionEnabled ==
    [][QuestionAppears
          => (~state'.showExplanation /\ state'.feedbackType = "none")]_vars

=============================================================================
